---- MODULE Spec2Model ----
(***************************************************************************)
(* Model of the application launcher in src/src/main.rs: the command       *)
(* sanitizer, the desktop-entry parser, the background scan worker, the    *)
(* icon cache and the per-frame update handler.                            *)
(*                                                                         *)
(* Strings are sequences of one-character strings.  Option<T> is a         *)
(* sequence of length 0 (None) or 1 (Some).                                *)
(***************************************************************************)
EXTENDS Integers, Sequences, FiniteSets

\* ------------------------------------------------------------------ bounds
MaxLen == 6        \* longest command string given to sanitize_command
MaxEntries == 2    \* most descriptors the scanned directories hold
MaxWorkers == 2    \* most scan threads alive at once

\* ----------------------------------------------------------------- options
None == <<>>
Some(x) == <<x>>
IsSome(o) == Len(o) = 1
Unwrap(o) == o[1]

\* ----------------------------------------------------------------- strings
\* char::is_whitespace, restricted to the ASCII whitespace of the model
IsWhitespace(c) == c \in {" ", "\t", "\n"}

\* str::contains
Contains(s, sub) ==
    \E i \in 0..(Len(s) - Len(sub)) : SubSeq(s, i + 1, i + Len(sub)) = sub

\* str::starts_with(char)
StartsWith(s, c) == Len(s) > 0 /\ s[1] = c

\* length of the leading run of non-whitespace characters
RECURSIVE TokenLen(_)
TokenLen(s) ==
    IF s = <<>> \/ IsWhitespace(Head(s)) THEN 0 ELSE 1 + TokenLen(Tail(s))

\* str::split_whitespace: the maximal runs of non-whitespace characters
RECURSIVE SplitWhitespace(_)
SplitWhitespace(s) ==
    IF s = <<>> THEN <<>>
    ELSE IF IsWhitespace(Head(s)) THEN SplitWhitespace(Tail(s))
    ELSE LET n == TokenLen(s)
         IN  <<SubSeq(s, 1, n)>> \o SplitWhitespace(SubSeq(s, n + 1, Len(s)))

\* a Join that forgets the separator
RECURSIVE JoinNoSeparator(_, _)
JoinNoSeparator(parts, sep) ==
    IF parts = <<>> THEN <<>>
    ELSE Head(parts) \o JoinNoSeparator(Tail(parts), sep)

\* [&str]::join(sep)
RECURSIVE Join(_, _)
Join(parts, sep) ==
    IF parts = <<>> THEN <<>>
    ELSE IF Len(parts) = 1 THEN Head(parts)
    ELSE Head(parts) \o sep \o Join(Tail(parts), sep)

\* char::to_lowercase on the letters of the model
LowerChar(c) == IF c = "A" THEN "a" ELSE IF c = "B" THEN "b" ELSE c

\* str::to_lowercase
to_lowercase(s) == [i \in 1..Len(s) |-> LowerChar(s[i])]

\* --------------------------------------------------------- sanitize_command
placeholders ==
    << <<"%", "u">>, <<"%", "U">>, <<"%", "f">>, <<"%", "F">>,
       <<"%", "d">>, <<"%", "D">>, <<"%", "n">>, <<"%", "N">>,
       <<"%", "i">>, <<"%", "c">>, <<"%", "k">> >>

\* a test that only recognises a token that IS a placeholder
IsPlaceholderExactly(part) ==
    \E k \in 1..Len(placeholders) : part = placeholders[k]

\* placeholders.iter().any(|&ph| part.contains(ph))
HasPlaceholder(part) ==
    \E k \in 1..Len(placeholders) : Contains(part, placeholders[k])

KeptPart(part) == ~HasPlaceholder(part)

sanitize_command(command) ==
    Join(SelectSeq(SplitWhitespace(command), KeptPart), <<" ">>)

\* ------------------------------------------------------ parse_desktop_entry
\* .filter(|part| !part.starts_with('%'))
NotFieldCode(part) == ~StartsWith(part, "%")

\* AppInfo
AppInfo(name, cmd, icon) == [name |-> name, command |-> cmd, icon |-> icon]

\* entry is what the desktop-entry reader hands over: the Name, Exec and Icon
\* keys, each present or absent
parse_desktop_entry(entry) ==
    IF ~IsSome(entry.name) THEN None
    ELSE IF ~IsSome(entry.exec) THEN None
    ELSE Some(AppInfo(Unwrap(entry.name),
                      Join(SelectSeq(SplitWhitespace(Unwrap(entry.exec)),
                                     NotFieldCode), <<" ">>),
                      entry.icon))

\* the descriptors a scan can meet
DesktopEntries ==
    { [name |-> Some(<<"A">>),
       exec |-> Some(<<"a", " ", "%", "U", " ", "b", "%", "f">>),
       icon |-> Some(<<"i">>)],
      [name |-> Some(<<"b">>), exec |-> Some(<<"%", "u">>),
       icon |-> None],
      [name |-> None, exec |-> Some(<<"a">>),
       icon |-> Some(<<"i">>)],
      [name |-> Some(<<"b">>), exec |-> None,
       icon |-> None] }

\* Iter::new(default_paths()).entries(..): the descriptors in directory order
EntryLists == UNION { [1..n -> DesktopEntries] : n \in 0..MaxEntries }

\* what the search box can hold
Queries == { <<>>, <<"A">> }

\* the filter closure of update
Matches(item, query) ==
    query = <<>> \/ Contains(to_lowercase(item.name), to_lowercase(query))

RECURSIVE FilterItems(_, _)
FilterItems(list, query) ==
    IF list = <<>> THEN <<>>
    ELSE IF Matches(Head(list), query)
         THEN <<Head(list)>> \o FilterItems(Tail(list), query)
         ELSE FilterItems(Tail(list), query)

\* ------------------------------------------------------------------ threads
UiThread == 0
NoOwner == -1
Workers == 1..MaxWorkers

VARIABLES
    entries,          \* the descriptors on disk
    items,            \* MyApp.items, the shared aggregate list
    icon_cache,       \* MyApp.icon_cache, the set of cached references
    selected_item,    \* MyApp.selected_item
    search_query,     \* MyApp.search_query
    itemsLock,        \* owner of the mutex around items
    cacheLock,        \* owner of the mutex around icon_cache
    pc,               \* position of the UI thread inside update
    snapshot,         \* the clone of items taken by the current frame
    filtered_items,   \* filtered_items of the current frame
    idx,              \* row of filtered_items being drawn
    wpc,              \* position of each scan thread
    wapps,            \* apps, the private list of each scan thread
    wpos,             \* next descriptor each scan thread reads
    attempted,        \* references a decode was attempted for
    reattempted,      \* references a decode was attempted for more than once
    succeeded,        \* references a decode succeeded for
    attemptedAfterOk, \* references decoded again after a success
    clicks,           \* buttons clicked in the current frame
    spawnCalls,       \* Command::spawn calls of the current frame
    spawnArg,         \* program handed to Command::new in the current frame
    spawnResult,      \* result of the spawn call of the current frame
    shown,            \* launch label drawn in the current frame
    command,          \* input of the sanitizer run
    sanitized,        \* sanitize_command(command)
    resanitized,      \* sanitize_command(sanitized)
    sanPc             \* position of the sanitizer run

sharedVars == <<items, icon_cache, itemsLock, cacheLock>>
uiVars == <<selected_item, search_query, pc, snapshot, filtered_items, idx>>
workerVars == <<wpc, wapps, wpos>>
decodeVars == <<attempted, reattempted, succeeded, attemptedAfterOk>>
launchVars == <<clicks, spawnCalls, spawnArg, spawnResult, shown>>
sanVars == <<command, sanitized, resanitized, sanPc>>
vars == <<entries, sharedVars, uiVars, workerVars, decodeVars, launchVars,
          sanVars>>

\* MyApp::default() and no thread started
AppInit ==
    /\ items = <<>>
    /\ icon_cache = {}
    /\ selected_item = None
    /\ search_query = <<>>
    /\ itemsLock = NoOwner
    /\ cacheLock = NoOwner
    /\ pc = "idle"
    /\ snapshot = <<>>
    /\ filtered_items = <<>>
    /\ idx = 1
    /\ wpc = [w \in Workers |-> "free"]
    /\ wapps = [w \in Workers |-> <<>>]
    /\ wpos = [w \in Workers |-> 1]
    /\ attempted = {}
    /\ reattempted = {}
    /\ succeeded = {}
    /\ attemptedAfterOk = {}
    /\ clicks = 0
    /\ spawnCalls = 0
    /\ spawnArg = None
    /\ spawnResult = "none"
    /\ shown = "none"

SanIdle ==
    /\ command = <<>>
    /\ sanitized = <<>>
    /\ resanitized = <<>>
    /\ sanPc = "off"

Init ==
    /\ entries \in EntryLists
    /\ AppInit
    /\ SanIdle

\* --------------------------------------------------------- the scan thread
\* thread::spawn in load_desktop_files; the new thread takes the lowest
\* unused thread slot
load_desktop_files ==
    /\ pc = "spawn"
    /\ \E w \in Workers :
        /\ wpc[w] = "free"
        /\ \A v \in Workers : wpc[v] = "free" => w <= v
        /\ wpc' = [wpc EXCEPT ![w] = "scan"]
        /\ wapps' = [wapps EXCEPT ![w] = <<>>]
        /\ wpos' = [wpos EXCEPT ![w] = 1]
    /\ pc' = "search"
    /\ UNCHANGED <<entries, sharedVars, selected_item, search_query, snapshot,
                   filtered_items, idx, decodeVars, launchVars, sanVars>>

\* a scan thread that pushes each record straight into the shared list
WorkerParseShared(w) ==
    /\ wpc[w] = "scan"
    /\ wpos[w] <= Len(entries)
    /\ LET app_info == parse_desktop_entry(entries[wpos[w]])
       IN  /\ wapps' = [wapps EXCEPT ![w] =
                           IF IsSome(app_info) THEN Append(@, Unwrap(app_info))
                           ELSE @]
           /\ items' = IF IsSome(app_info)
                       THEN SubSeq(wapps[w], 1, Len(wapps[w]))
                            \o <<Unwrap(app_info)>>
                       ELSE items
    /\ wpos' = [wpos EXCEPT ![w] = @ + 1]
    /\ UNCHANGED <<entries, icon_cache, itemsLock, cacheLock, uiVars, wpc,
                   decodeVars, launchVars, sanVars>>

\* one turn of the for loop of the scan thread
WorkerParse(w) ==
    /\ wpc[w] = "scan"
    /\ wpos[w] <= Len(entries)
    /\ LET app_info == parse_desktop_entry(entries[wpos[w]])
       IN  wapps' = [wapps EXCEPT ![w] =
                        IF IsSome(app_info) THEN Append(@, Unwrap(app_info))
                        ELSE @]
    /\ wpos' = [wpos EXCEPT ![w] = @ + 1]
    /\ UNCHANGED <<entries, sharedVars, uiVars, wpc, decodeVars, launchVars,
                   sanVars>>

\* items.lock() of the scan thread, after the loop
WorkerLock(w) ==
    /\ wpc[w] = "scan"
    /\ wpos[w] > Len(entries)
    /\ itemsLock = NoOwner
    /\ itemsLock' = w
    /\ wpc' = [wpc EXCEPT ![w] = "store"]
    /\ UNCHANGED <<entries, items, icon_cache, cacheLock, uiVars, wapps, wpos,
                   decodeVars, launchVars, sanVars>>

\* *guard = apps; the guard is dropped and the thread ends
WorkerStore(w) ==
    /\ wpc[w] = "store"
    /\ items' = wapps[w]
    /\ itemsLock' = NoOwner
    /\ wpc' = [wpc EXCEPT ![w] = "free"]
    /\ wapps' = [wapps EXCEPT ![w] = <<>>]
    /\ wpos' = [wpos EXCEPT ![w] = 1]
    /\ UNCHANGED <<entries, icon_cache, cacheLock, uiVars, decodeVars,
                   launchVars, sanVars>>

\* ------------------------------------------------------------------- update
\* a frame starts: self.items.lock() of the emptiness test
UpdateLockItems ==
    /\ pc = "idle"
    /\ itemsLock = NoOwner
    /\ itemsLock' = UiThread
    /\ pc' = "check"
    /\ clicks' = 0
    /\ spawnCalls' = 0
    /\ spawnArg' = None
    /\ spawnResult' = "none"
    /\ shown' = "none"
    /\ UNCHANGED <<entries, items, icon_cache, cacheLock, selected_item,
                   search_query, snapshot, filtered_items, idx, workerVars,
                   decodeVars, sanVars>>

\* .is_empty(); the temporary guard is dropped at the end of the condition
UpdateCheckEmpty ==
    /\ pc = "check"
    /\ itemsLock' = NoOwner
    /\ pc' = IF items = <<>> THEN "spawn" ELSE "search"
    /\ UNCHANGED <<entries, items, icon_cache, cacheLock, selected_item,
                   search_query, snapshot, filtered_items, idx, workerVars,
                   decodeVars, launchVars, sanVars>>

\* the search box is edited, then self.items.lock() of the snapshot
UpdateSearchLock ==
    /\ pc = "search"
    /\ itemsLock = NoOwner
    /\ search_query' \in Queries
    /\ itemsLock' = UiThread
    /\ pc' = "snap"
    /\ UNCHANGED <<entries, items, icon_cache, cacheLock, selected_item,
                   snapshot, filtered_items, idx, workerVars, decodeVars,
                   launchVars, sanVars>>

\* a snapshot whose guard lives on while the rows are drawn
UpdateSnapshotKeepsGuard ==
    /\ pc = "snap"
    /\ snapshot' = items
    /\ filtered_items' = FilterItems(items, search_query)
    /\ idx' = 1
    /\ pc' = "row"
    /\ UNCHANGED <<entries, sharedVars, selected_item, search_query,
                   workerVars, decodeVars, launchVars, sanVars>>

\* .clone(); the guard is dropped at the end of the statement; the filter
UpdateSnapshot ==
    /\ pc = "snap"
    /\ snapshot' = items
    /\ filtered_items' = FilterItems(items, search_query)
    /\ idx' = 1
    /\ itemsLock' = NoOwner
    /\ pc' = "row"
    /\ UNCHANGED <<entries, items, icon_cache, cacheLock, selected_item,
                   search_query, workerVars, decodeVars, launchVars, sanVars>>

\* a row with an icon: self.icon_cache.lock() of load_icon
LoadIconLock ==
    /\ pc = "row"
    /\ idx <= Len(filtered_items)
    /\ IsSome(filtered_items[idx].icon)
    /\ cacheLock = NoOwner
    /\ cacheLock' = UiThread
    /\ pc' = "icon"
    /\ UNCHANGED <<entries, items, icon_cache, itemsLock, selected_item,
                   search_query, snapshot, filtered_items, idx, workerVars,
                   decodeVars, launchVars, sanVars>>

\* a load_icon that never fills the cache
load_icon_no_insert ==
    /\ pc = "icon"
    /\ LET icon_name == Unwrap(filtered_items[idx].icon)
       IN  IF icon_name \in icon_cache
           THEN UNCHANGED <<icon_cache, decodeVars>>
           ELSE \E ok \in BOOLEAN :
                   /\ attempted' = attempted \cup {icon_name}
                   /\ reattempted' = IF icon_name \in attempted
                                     THEN reattempted \cup {icon_name}
                                     ELSE reattempted
                   /\ attemptedAfterOk' = IF icon_name \in succeeded
                                          THEN attemptedAfterOk \cup {icon_name}
                                          ELSE attemptedAfterOk
                   /\ succeeded' = IF ok THEN succeeded \cup {icon_name}
                                   ELSE succeeded
                   /\ UNCHANGED icon_cache
    /\ cacheLock' = NoOwner
    /\ pc' = "button"
    /\ UNCHANGED <<entries, items, itemsLock, selected_item, search_query,
                   snapshot, filtered_items, idx, workerVars, launchVars,
                   sanVars>>

\* the body of load_icon: a cache hit, or one lookup-and-decode attempt whose
\* result is cached only when it succeeds; the guard is dropped on return
load_icon ==
    /\ pc = "icon"
    /\ LET icon_name == Unwrap(filtered_items[idx].icon)
       IN  IF icon_name \in icon_cache
           THEN UNCHANGED <<icon_cache, decodeVars>>
           ELSE \E ok \in BOOLEAN :
                   /\ attempted' = attempted \cup {icon_name}
                   /\ reattempted' = IF icon_name \in attempted
                                     THEN reattempted \cup {icon_name}
                                     ELSE reattempted
                   /\ attemptedAfterOk' = IF icon_name \in succeeded
                                          THEN attemptedAfterOk \cup {icon_name}
                                          ELSE attemptedAfterOk
                   /\ succeeded' = IF ok THEN succeeded \cup {icon_name}
                                   ELSE succeeded
                   /\ icon_cache' = IF ok THEN icon_cache \cup {icon_name}
                                    ELSE icon_cache
    /\ cacheLock' = NoOwner
    /\ pc' = "button"
    /\ UNCHANGED <<entries, items, itemsLock, selected_item, search_query,
                   snapshot, filtered_items, idx, workerVars, launchVars,
                   sanVars>>

\* a row without an icon draws the fallback glyph
RowNoIcon ==
    /\ pc = "row"
    /\ idx <= Len(filtered_items)
    /\ ~IsSome(filtered_items[idx].icon)
    /\ pc' = "button"
    /\ UNCHANGED <<entries, sharedVars, selected_item, search_query, snapshot,
                   filtered_items, idx, workerVars, decodeVars, launchVars,
                   sanVars>>

\* ui.button(&item.name).clicked(): the pointer clicks at most one widget in
\* a frame
Button ==
    /\ pc = "button"
    /\ \E clicked \in BOOLEAN :
        /\ clicked => clicks = 0
        /\ selected_item' = IF clicked
                            THEN Some(filtered_items[idx].command)
                            ELSE selected_item
        /\ clicks' = IF clicked THEN clicks + 1 ELSE clicks
    /\ idx' = idx + 1
    /\ pc' = "row"
    /\ UNCHANGED <<entries, sharedVars, search_query, snapshot, filtered_items,
                   workerVars, decodeVars, spawnCalls, spawnArg, spawnResult,
                   shown, sanVars>>

\* a launch block that leaves the selection in place
LaunchKeepsSelection ==
    /\ pc = "row"
    /\ idx > Len(filtered_items)
    /\ IF IsSome(selected_item)
       THEN LET program == sanitize_command(Unwrap(selected_item))
            IN  /\ spawnCalls' = spawnCalls + 1
                /\ spawnArg' = Some(program)
                /\ \E ok \in BOOLEAN :
                    /\ ok => program /= <<>>
                    /\ spawnResult' = IF ok THEN "ok" ELSE "err"
                    /\ shown' = IF ok THEN "green" ELSE "red"
       ELSE UNCHANGED <<spawnCalls, spawnArg, spawnResult, shown>>
    /\ pc' = "idle"
    /\ snapshot' = <<>>
    /\ filtered_items' = <<>>
    /\ idx' = 1
    /\ UNCHANGED <<entries, sharedVars, selected_item, search_query,
                   workerVars, decodeVars, clicks, sanVars>>

\* the rows are drawn: the launch block and the end of the frame.  spawn of
\* an empty program name fails; any other spawn succeeds or fails
Launch ==
    /\ pc = "row"
    /\ idx > Len(filtered_items)
    /\ IF IsSome(selected_item)
       THEN LET program == sanitize_command(Unwrap(selected_item))
            IN  /\ spawnCalls' = spawnCalls + 1
                /\ spawnArg' = Some(program)
                /\ \E ok \in BOOLEAN :
                    /\ ok => program /= <<>>
                    /\ spawnResult' = IF ok THEN "ok" ELSE "err"
                    /\ shown' = IF ok THEN "green" ELSE "red"
       ELSE UNCHANGED <<spawnCalls, spawnArg, spawnResult, shown>>
    /\ selected_item' = None
    /\ pc' = "idle"
    /\ snapshot' = <<>>
    /\ filtered_items' = <<>>
    /\ idx' = 1
    /\ UNCHANGED <<entries, sharedVars, search_query, workerVars, decodeVars,
                   clicks, sanVars>>

Next ==
    \/ UpdateLockItems
    \/ UpdateCheckEmpty
    \/ load_desktop_files
    \/ UpdateSearchLock
    \/ UpdateSnapshot
    \/ LoadIconLock
    \/ load_icon
    \/ RowNoIcon
    \/ Button
    \/ Launch
    \/ \E w \in Workers : WorkerParse(w)
    \/ \E w \in Workers : WorkerLock(w)
    \/ \E w \in Workers : WorkerStore(w)

Spec == Init /\ [][Next]_vars

\* ------------------------------------------------------- the sanitizer runs
SanAlphabet == { " ", "%", "u", "a" }

Commands == UNION { [1..n -> SanAlphabet] : n \in 0..MaxLen }

InitSan ==
    /\ entries = <<>>
    /\ AppInit
    /\ command \in Commands
    /\ sanitized = <<>>
    /\ resanitized = <<>>
    /\ sanPc = "input"

\* sanitize_command(command)
Sanitize ==
    /\ sanPc = "input"
    /\ sanitized' = sanitize_command(command)
    /\ sanPc' = "once"
    /\ UNCHANGED <<entries, sharedVars, uiVars, workerVars, decodeVars,
                   launchVars, command, resanitized>>

\* sanitize_command applied to its own result
SanitizeAgain ==
    /\ sanPc = "once"
    /\ resanitized' = sanitize_command(sanitized)
    /\ sanPc' = "twice"
    /\ UNCHANGED <<entries, sharedVars, uiVars, workerVars, decodeVars,
                   launchVars, command, sanitized>>

NextSan ==
    \/ Sanitize
    \/ SanitizeAgain

SpecSan == InitSan /\ [][NextSan]_vars

\* ---------------------------------------------------------------- properties
\* the list one whole run of the scan loop builds from the descriptors
RECURSIVE ScanResult(_)
ScanResult(list) ==
    IF list = <<>> THEN <<>>
    ELSE LET app_info == parse_desktop_entry(Head(list))
         IN  (IF IsSome(app_info) THEN <<Unwrap(app_info)>> ELSE <<>>)
             \o ScanResult(Tail(list))

\* C1: the result of sanitize_command holds no reserved placeholder, its
\* tokens are exactly the tokens of the input that contain no reserved
\* placeholder, in the input's order, and they are separated by one space
\* each, with no whitespace at either end.
C1_SanitizeDropsPlaceholderTokens ==
    sanPc /= "input" =>
        LET Clean(t) == \A k \in 1..Len(placeholders) :
                            ~Contains(t, placeholders[k])
        IN  /\ Clean(sanitized)
            /\ SplitWhitespace(sanitized)
                   = SelectSeq(SplitWhitespace(command), Clean)
            /\ \A i \in 1..Len(sanitized) :
                   IsWhitespace(sanitized[i]) =>
                       /\ sanitized[i] = " "
                       /\ 1 < i
                       /\ i < Len(sanitized)
                       /\ ~IsWhitespace(sanitized[i + 1])

\* "a %u a" has been sanitized to "a a"
C1_Witness ==
    /\ sanPc = "once"
    /\ command = <<"a", " ", "%", "u", " ", "a">>
    /\ sanitized = <<"a", " ", "a">>

\* C2: every record in the shared list has a non-empty name and a non-empty
\* command.
C2_StoredRecordsNonEmpty ==
    \A i \in 1..Len(items) :
        items[i].name /= <<>> /\ items[i].command /= <<>>

C4_SnapshotIsWholeScan ==
    LET whole == ScanResult(entries)
    IN  /\ items = <<>> \/ items = whole
        /\ snapshot = <<>> \/ snapshot = whole

\* the UI holds the whole two-record list while a scan thread is half way
\* through building its own
C4_Witness ==
    /\ pc = "row"
    /\ Len(snapshot) >= 2
    /\ snapshot = ScanResult(entries)
    /\ \E w \in Workers :
           wpc[w] = "scan" /\ Len(wapps[w]) > 0
                           /\ Len(wapps[w]) < Len(snapshot)

\* C5: at most one scan thread is alive at any time.
C5_AtMostOneScanThread ==
    Cardinality({ w \in Workers : wpc[w] /= "free" }) <= 1

\* C6: the command of every record parse_desktop_entry produced holds no
\* token with a reserved placeholder, and sanitize_command leaves it as it is.
C6_StoredCommandLaunchReady ==
    \A i \in 1..Len(items) :
        /\ \A k \in 1..Len(placeholders) :
               ~Contains(items[i].command, placeholders[k])
        /\ sanitize_command(items[i].command) = items[i].command

\* C7: the spawn primitive is never called with the empty command.
C7_NoSpawnOfEmptyCommand ==
    spawnCalls > 0 => Unwrap(spawnArg) /= <<>>

\* C8: sanitize_command applied to its own result returns that result.
C8_SanitizeIdempotent ==
    sanPc = "twice" => resanitized = sanitized

\* a command that the first pass changed, to something non-empty, went
\* through the second pass
C8_Witness ==
    /\ sanPc = "twice"
    /\ sanitized /= command
    /\ sanitized /= <<>>

C10_NoLockNesting ==
    /\ ~(itemsLock = UiThread /\ cacheLock = UiThread)
    /\ cacheLock \notin Workers
    /\ pc \in {"idle", "search", "row"} =>
           itemsLock /= UiThread /\ cacheLock /= UiThread
    /\ \A w \in Workers : wpc[w] /= "store" => itemsLock /= w
    /\ itemsLock = UiThread => ENABLED (UpdateCheckEmpty \/ UpdateSnapshot)
    /\ cacheLock = UiThread => ENABLED load_icon
    /\ \A w \in Workers : itemsLock = w => ENABLED WorkerStore(w)

\* the UI is inside load_icon with the cache locked while a scan thread owns
\* the list mutex
C10_Witness ==
    /\ cacheLock = UiThread
    /\ itemsLock \in Workers

====
